---- MODULE Spec2Model ----
(***************************************************************************)
(* json_schema_validator.validator.Validator as a state machine.           *)
(*                                                                         *)
(* A call of Validator.validate is a thread with a control stack of        *)
(* activations; the validators it creates live in a heap of instances,     *)
(* each with its _schema_stack and _object_stack.  One action is one       *)
(* statement group of validator.py between two calls of _validate.         *)
(***************************************************************************)
EXTENDS Integers, Sequences, FiniteSets, TLC

VARIABLES th, hp

vars == <<th, hp>>

(***************************************************************************)
(* JSON values as Python decodes them.  Every value is a record of the     *)
(* same shape: t is the Python type, n the number (True is 1, False is 0,  *)
(* a float is kept in tenths), s the string, l the list, d the dict.       *)
(***************************************************************************)
JV(t, n, s, l, d) == [t |-> t, n |-> n, s |-> s, l |-> l, d |-> d]

None == JV("NoneType", 0, "", <<>>, <<>>)

PyBool(b) == JV("bool", IF b THEN 1 ELSE 0, "", <<>>, <<>>)

PyInt(n) == JV("int", n, "", <<>>, <<>>)

PyFloat(tenths) == JV("float", tenths, "", <<>>, <<>>)

PyStr(s) == JV("basestring", 0, s, <<>>, <<>>)

PyList(l) == JV("list", 0, "", l, <<>>)

PyDict(d) == JV("dict", 0, "", <<>>, d)

EmptyDict == PyDict(<<>>)

\* Python's type hierarchy: bool is a subclass of int.
PyBases(t) == IF t = "bool" THEN {"bool", "int"} ELSE {t}

\* isinstance(obj, types)
IsInstance(obj, types) == PyBases(obj.t) \cap types # {}

IsNumber(v) == v.t \in {"bool", "int", "float"}

Tenths(v) == IF v.t = "float" THEN v.n ELSE 10 * v.n

\* Python's ==: numbers compare by value across bool, int and float; other
\* values compare structurally.
PyEq(a, b) ==
    IF IsNumber(a) /\ IsNumber(b) THEN Tenths(a) = Tenths(b)
    ELSE a.t = b.t /\ a = b

\* prop in obj, for a dict obj
HasKey(obj, k) == k \in DOMAIN obj.d

(***************************************************************************)
(* json_schema_validator.schema.Schema: a read-only view of the raw        *)
(* schema dict with the documented defaults.                               *)
(***************************************************************************)
SchemaGet(schema, key, default) ==
    IF HasKey(schema, key) THEN schema.d[key] ELSE default

\* Schema.type: always a list of alternatives; absent means "any".
SchemaType(schema) ==
    LET v == SchemaGet(schema, "type", PyStr("any"))
    IN  IF v.t = "list" THEN v.l ELSE <<v>>

SchemaProperties(schema) == SchemaGet(schema, "properties", EmptyDict)

SchemaAdditionalProperties(schema) ==
    SchemaGet(schema, "additionalProperties", EmptyDict)

SchemaItems(schema) == SchemaGet(schema, "items", EmptyDict)

SchemaRequires(schema) == SchemaGet(schema, "requires", EmptyDict)

SchemaOptional(schema) == SchemaGet(schema, "optional", PyBool(FALSE))

SchemaEnum(schema) == SchemaGet(schema, "enum", None)

SchemaFormat(schema) == SchemaGet(schema, "format", None)

SchemaPattern(schema) == SchemaGet(schema, "pattern", None)

\* NUMERIC_TYPES of json_schema_validator.misc
NUMERIC_TYPES == {"int", "float"}

\* Validator.JSON_TYPE_MAP
JSON_TYPE_MAP ==
    [string  |-> {"basestring"},
     number  |-> NUMERIC_TYPES,
     integer |-> {"int"},
     object  |-> {"dict"},
     array   |-> {"list"},
     null    |-> {"NoneType"}]

(***************************************************************************)
(* datetime.datetime.strptime(obj, "%Y-%m-%dT%H:%M:%SZ"): TRUE when it     *)
(* returns, FALSE when it raises ValueError.  The format is matched        *)
(* against the whole string, letters case-insensitively; a numeric field   *)
(* is the run of digits up to the next literal.                            *)
(***************************************************************************)
Digits == <<"0", "1", "2", "3", "4", "5", "6", "7", "8", "9">>

CharAt(s, i) == IF 1 <= i /\ i <= Len(s) THEN SubSeq(s, i, i) ELSE ""

IsDigit(ch) == \E k \in 1..10 : Digits[k] = ch

DigitVal(ch) == (CHOOSE k \in 1..10 : Digits[k] = ch) - 1

RECURSIVE DigitRun(_, _)
DigitRun(s, i) == IF IsDigit(CharAt(s, i)) THEN 1 + DigitRun(s, i + 1) ELSE 0

RECURSIVE NumVal(_, _, _)
NumVal(s, i, len) ==
    IF len = 0 THEN 0
    ELSE 10 * NumVal(s, i, len - 1) + DigitVal(CharAt(s, i + len - 1))

\* One %-field at position i: lo..hi digits, value in minv..maxv.
ReadField(s, i, lo, hi, minv, maxv) ==
    LET r == DigitRun(s, i)
        v == NumVal(s, i, r)
    IN  [ok |-> lo <= r /\ r <= hi /\ minv <= v /\ v <= maxv,
         val |-> v, next |-> i + r]

IsLeap(y) == (y % 4 = 0 /\ y % 100 # 0) \/ y % 400 = 0

DaysInMonth(y, m) ==
    IF m = 2 THEN (IF IsLeap(y) THEN 29 ELSE 28)
    ELSE IF m \in {4, 6, 9, 11} THEN 30 ELSE 31

Strptime(s) ==
    LET Y  == ReadField(s, 1, 4, 4, 0, 9999)
        mo == ReadField(s, Y.next + 1, 1, 2, 1, 12)
        \* %d also takes a blank followed by one digit
        d0 == IF CharAt(s, mo.next + 1) = " " THEN mo.next + 2 ELSE mo.next + 1
        d  == ReadField(s, d0, 1, IF d0 = mo.next + 2 THEN 1 ELSE 2, 1, 31)
        H  == ReadField(s, d.next + 1, 1, 2, 0, 23)
        M  == ReadField(s, H.next + 1, 1, 2, 0, 59)
        S  == ReadField(s, M.next + 1, 1, 2, 0, 61)
    IN  /\ Y.ok /\ CharAt(s, Y.next) = "-"
        /\ mo.ok /\ CharAt(s, mo.next) = "-"
        /\ d.ok /\ CharAt(s, d.next) \in {"T", "t"}
        /\ H.ok /\ CharAt(s, H.next) = ":"
        /\ M.ok /\ CharAt(s, M.next) = ":"
        /\ S.ok /\ CharAt(s, S.next) \in {"Z", "z"}
        /\ S.next = Len(s)
        \* datetime.datetime(year, month, day, hour, minute, second)
        /\ Y.val >= 1 /\ d.val <= DaysInMonth(Y.val, mo.val) /\ S.val <= 59

(***************************************************************************)
(* re.match(ptn, obj) for patterns of literal characters, "." (any         *)
(* character but a newline), a leading "^" and a trailing "$": the         *)
(* pattern is matched from position 0 and need not use up the string.      *)
(***************************************************************************)
RECURSIVE ReMatchFrom(_, _, _, _)
ReMatchFrom(ptn, i, obj, j) ==
    IF i > Len(ptn) THEN TRUE
    ELSE IF CharAt(ptn, i) = "$" /\ i = Len(ptn) THEN j > Len(obj)
    ELSE IF j > Len(obj) THEN FALSE
    ELSE IF CharAt(ptn, i) = "." \/ CharAt(ptn, i) = CharAt(obj, j)
         THEN ReMatchFrom(ptn, i + 1, obj, j + 1)
    ELSE FALSE

ReMatch(ptn, obj) ==
    ReMatchFrom(ptn, IF CharAt(ptn, 1) = "^" THEN 2 ELSE 1, obj, 1)

\* re.compile(obj) returns (TRUE) or raises (FALSE): a pattern that opens a
\* group or a class it never closes, or starts with a repeat, does not compile.
RECURSIVE Count(_, _, _)
Count(s, i, ch) ==
    IF i > Len(s) THEN 0
    ELSE (IF CharAt(s, i) = ch THEN 1 ELSE 0) + Count(s, i + 1, ch)

ReCompiles(obj) ==
    /\ obj.t = "basestring"
    /\ Count(obj.s, 1, "(") = Count(obj.s, 1, ")")
    /\ Count(obj.s, 1, "[") = Count(obj.s, 1, "]")
    /\ CharAt(obj.s, 1) \notin {"*", "+", "?"}

(***************************************************************************)
(* Validator instances and threads.                                        *)
(*                                                                         *)
(* hp is the heap: hp[i] is validator instance i with its two stacks of    *)
(* frames (value, path).  A thread t is one call of Validator.validate:    *)
(* t.in its arguments, t.order the order in which this build iterates the  *)
(* keys of a dict, t.ctl its control stack, t.res what it returned or      *)
(* raised, t.visited the schemas on which _validate was entered.  An       *)
(* activation holds the position pc, the validator self, and the loop      *)
(* state (keys still to iterate, index reached).                           *)
(***************************************************************************)
Frame(val, path) == [val |-> val, path |-> path]

Activation(pc, self) == [pc |-> pc, self |-> self, keys |-> <<>>, idx |-> 0]

R(t, h) == [t |-> t, h |-> h]

Top(t) == t.ctl[Len(t.ctl)]

Pc(t) == IF t.ctl = <<>> THEN "done" ELSE Top(t).pc

Self(t) == Top(t).self

Last(stack) == stack[Len(stack)]

\* Validator._schema and Validator._object
CurSchema(h, i) == Last(h[i].ss).val

CurObject(h, i) == Last(h[i].os).val

\* Validator.__init__
NewValidator == [ss |-> <<>>, os |-> <<>>]

push_schema(h, i, schema, path) ==
    [h EXCEPT ![i].ss = Append(@, Frame(schema, path))]

pop_schema(h, i) == [h EXCEPT ![i].ss = SubSeq(@, 1, Len(@) - 1)]

push_object(h, i, obj, path) ==
    [h EXCEPT ![i].os = Append(@, Frame(obj, path))]

pop_object(h, i) == [h EXCEPT ![i].os = SubSeq(@, 1, Len(@) - 1)]

RECURSIVE JoinPaths(_)
JoinPaths(stack) ==
    IF stack = <<>> THEN "" ELSE stack[1].path \o JoinPaths(Tail(stack))

get_object_expression(h, i) == JoinPaths(h[i].os)

get_schema_expression(h, i) == JoinPaths(h[i].ss)

\* An exception leaves every activation of the thread: no handler catches it
\* and no frame is popped on the way out.
Raise(t, h, kind, object_expr, schema_expr) ==
    R([t EXCEPT !.ctl = <<>>,
                !.res = [kind |-> kind, object_expr |-> object_expr,
                         schema_expr |-> schema_expr, by |-> Self(t)]], h)

report_error(t, h, schema_suffix) ==
    Raise(t, h, "ValidationError", get_object_expression(h, Self(t)),
          get_schema_expression(h, Self(t)) \o schema_suffix)

\* A call of _report_error with a keyword it does not take.
report_error_bad_keyword(t, h) == Raise(t, h, "TypeError", "", "")

SetTop(t, a) == [t EXCEPT !.ctl[Len(t.ctl)] = a]

Goto(t, pc) == SetTop(t, [Top(t) EXCEPT !.pc = pc])

\* The keys of a dict in the build's iteration order.
IterKeys(dict, order) == SelectSeq(order, LAMBDA k : k \in DOMAIN dict.d)

\* self._validate() called by validator i: a new activation.
CallValidate(t, h, i) ==
    R([t EXCEPT !.ctl = Append(@, Activation("type", i)),
                !.visited = @ \cup {CurSchema(h, i)}], h)

\* return from _validate
Return(t) == [t EXCEPT !.ctl = SubSeq(@, 1, Len(@) - 1)]

(***************************************************************************)
(* The operations of Validator, each from the state of one thread and the  *)
(* heap to the state after it.                                             *)
(***************************************************************************)

\* validate with one validator kept for every call instead of self = cls().
validate_SharedValidator(t, h) ==
    IF ~t.in.isSchema
    THEN Raise(t, h, "ValueError", "", "")
    ELSE LET h2 == IF h = <<>> THEN <<NewValidator>> ELSE h
         IN  R([t EXCEPT !.ctl = <<Activation("validate_return", 1),
                                   Activation("validate_toplevel", 1)>>],
               h2)

\* Validator.validate up to its call of validate_toplevel.
validate(t, h) ==
    IF ~t.in.isSchema
    THEN Raise(t, h, "ValueError", "", "")
    ELSE LET h2 == Append(h, NewValidator)
         IN  R([t EXCEPT !.ctl = <<Activation("validate_return", Len(h2)),
                                   Activation("validate_toplevel", Len(h2))>>],
               h2)

\* Validator.validate: return True
validate_return(t, h) ==
    R([t EXCEPT !.ctl = <<>>, !.res.kind = "ok"], h)

\* validate_toplevel up to its call of _validate.
validate_toplevel(t, h) ==
    LET i  == Self(t)
        h1 == [h EXCEPT ![i] = NewValidator]
        h2 == push_schema(h1, i, t.in.schema, "schema")
        h3 == push_object(h2, i, t.in.obj, "object")
    IN  CallValidate(Goto(t, "toplevel_return"), h3, i)

\* validate_toplevel after _validate returned.
toplevel_return(t, h) ==
    R(Return(t), pop_object(pop_schema(h, Self(t)), Self(t)))

\* _validate after _validate_requires: the branch on the object's type.
Branch(t, h) ==
    LET obj == CurObject(h, Self(t))
    IN  IF IsInstance(obj, {"dict"})
        THEN SetTop(t, [Top(t) EXCEPT
                 !.pc = "properties",
                 !.keys = IterKeys(SchemaProperties(CurSchema(h, Self(t))),
                                   t.order)])
        ELSE IF IsInstance(obj, {"list"}) THEN Goto(t, "items")
        ELSE Goto(t, "enum")

\* _validate_type: one alternative of schema.type.
validate_type(t, h) ==
    LET i     == Self(t)
        obj   == CurObject(h, i)
        alts  == SchemaType(CurSchema(h, i))
        k     == Top(t).idx + 1
    IN  IF alts = <<>>
        THEN Raise(t, h, "UnboundLocalError", "", "")
        ELSE IF k > Len(alts)
        THEN report_error(t, h, ".type")
        ELSE LET json_type == alts[k]
             IN  IF json_type.t = "basestring" /\ json_type.s = "any"
                 THEN R(Goto(t, "requires"), h)
                 ELSE IF json_type.t = "basestring" /\ json_type.s = "boolean"
                 THEN IF obj.t # "bool"
                      THEN report_error(t, h, ".type")
                      ELSE R(Goto(t, "requires"), h)
                 ELSE IF IsInstance(json_type, {"dict"})
                 THEN CallValidate(Goto(t, "type_return"),
                                   push_schema(h, i, json_type, ".type"), i)
                 ELSE IF json_type.t # "basestring"
                         \/ json_type.s \notin DOMAIN JSON_TYPE_MAP
                 THEN Raise(t, h, "KeyError", "", "")
                 ELSE IF IsInstance(obj, JSON_TYPE_MAP[json_type.s])
                 THEN R(Goto(t, "requires"), h)
                 ELSE R(SetTop(t, [Top(t) EXCEPT !.idx = k]), h)

\* _validate_type after the nested _validate returned.
type_return(t, h) == R(Goto(t, "requires"), pop_schema(h, Self(t)))

\* The sub-validator given the whole object stack instead of [:-1].
SubValidator_WholeObjectStack(h, i, requires_json) ==
    [os |-> h[i].os,
     ss |-> Append(h[i].ss, Frame(requires_json, ".requires"))]

\* The validator that the schema form of requires creates.
SubValidator(h, i, requires_json) ==
    [os |-> SubSeq(h[i].os, 1, Len(h[i].os) - 1),
     ss |-> Append(h[i].ss, Frame(requires_json, ".requires"))]

\* _validate_requires up to the call of sub_validator._validate.
validate_requires(t, h) ==
    LET i             == Self(t)
        requires_json == SchemaRequires(CurSchema(h, i))
    IN  IF PyEq(requires_json, EmptyDict)
        THEN R(Branch(t, h), h)
        ELSE IF Len(h[i].os) < 2
        THEN report_error(t, h, ".requires")
        ELSE LET parent_obj == h[i].os[Len(h[i].os) - 1].val
             IN  IF IsInstance(requires_json, {"basestring"})
                 THEN IF ~IsInstance(parent_obj, {"dict"})
                         \/ ~HasKey(parent_obj, requires_json.s)
                      THEN report_error(t, h, ".requires")
                      ELSE R(Branch(t, h), h)
                 ELSE IF IsInstance(requires_json, {"dict"})
                 THEN LET h2 == Append(h, SubValidator(h, i, requires_json))
                      IN  CallValidate(Goto(t, "requires_return"), h2, Len(h2))
                 ELSE R(Branch(t, h), h)

\* _validate_requires after sub_validator._validate returned.
requires_return(t, h) == R(Branch(t, h), h)

\* _validate_properties: one property of schema.properties.
validate_properties(t, h) ==
    LET i      == Self(t)
        obj    == CurObject(h, i)
        schema == CurSchema(h, i)
        keys   == Top(t).keys
    IN  IF keys = <<>>
        THEN R(Goto(t, "additional"), h)
        ELSE LET prop == Head(keys)
                 h2   == push_schema(h, i, SchemaProperties(schema).d[prop],
                                     ".properties." \o prop)
             IN  IF HasKey(obj, prop)
                 THEN CallValidate(Goto(t, "properties_return"),
                                   push_object(h2, i, obj.d[prop], "." \o prop),
                                   i)
                 ELSE IF SchemaOptional(CurSchema(h2, i)).n = 0
                 THEN report_error(t, h2, ".optional")
                 ELSE R(SetTop(t, [Top(t) EXCEPT !.keys = Tail(keys)]),
                        pop_schema(h2, i))

\* _validate_properties after _validate returned.
properties_return(t, h) ==
    R(SetTop(t, [Top(t) EXCEPT !.pc = "properties", !.keys = Tail(@)]),
      pop_schema(pop_object(h, Self(t)), Self(t)))

\* _validate_additional_properties looping over the undeclared keys only.
validate_additional_properties_UndeclaredOnly(t, h) ==
    LET i      == Self(t)
        obj    == CurObject(h, i)
        schema == CurSchema(h, i)
        addl   == SchemaAdditionalProperties(schema)
        undeclared == SelectSeq(IterKeys(obj, t.order),
                                LAMBDA k : ~HasKey(SchemaProperties(schema), k))
    IN  IF addl.t = "bool" /\ addl.n = 0
        THEN IF \E k \in DOMAIN obj.d : ~HasKey(SchemaProperties(schema), k)
             THEN report_error(t, h, ".additionalProperties")
             ELSE R(Goto(t, "unsupported"), h)
        ELSE R(SetTop(t, [Top(t) EXCEPT !.pc = "additional_loop",
                                        !.keys = undeclared]),
               push_schema(h, i, addl, ".additionalProperties"))

\* _validate_additional_properties up to its loop over the object.
validate_additional_properties(t, h) ==
    LET i      == Self(t)
        obj    == CurObject(h, i)
        schema == CurSchema(h, i)
        addl   == SchemaAdditionalProperties(schema)
    IN  IF addl.t = "bool" /\ addl.n = 0
        THEN IF \E k \in DOMAIN obj.d : ~HasKey(SchemaProperties(schema), k)
             THEN report_error(t, h, ".additionalProperties")
             ELSE R(Goto(t, "unsupported"), h)
        ELSE R(SetTop(t, [Top(t) EXCEPT !.pc = "additional_loop",
                                        !.keys = IterKeys(obj, t.order)]),
               push_schema(h, i, addl, ".additionalProperties"))

\* _validate_additional_properties without its _pop_schema.
additional_loop_NoPopSchema(t, h) ==
    LET i    == Self(t)
        obj  == CurObject(h, i)
        keys == Top(t).keys
    IN  IF keys = <<>>
        THEN R(Goto(t, "unsupported"), h)
        ELSE CallValidate(Goto(t, "additional_return"),
                          push_object(h, i, obj.d[Head(keys)],
                                      "." \o Head(keys)), i)

\* _validate_additional_properties: one key of the object.
additional_loop(t, h) ==
    LET i    == Self(t)
        obj  == CurObject(h, i)
        keys == Top(t).keys
    IN  IF keys = <<>>
        THEN R(Goto(t, "unsupported"), pop_schema(h, i))
        ELSE CallValidate(Goto(t, "additional_return"),
                          push_object(h, i, obj.d[Head(keys)],
                                      "." \o Head(keys)), i)

\* _validate_additional_properties after _validate returned.
additional_return(t, h) ==
    R(SetTop(t, [Top(t) EXCEPT !.pc = "additional_loop", !.keys = Tail(@)]),
      pop_object(h, Self(t)))

Max(a, b) == IF a >= b THEN a ELSE b

\* _validate_items without the check of a length difference under
\* additionalProperties false.
validate_items_AnyLength(t, h) ==
    LET i      == Self(t)
        obj    == CurObject(h, i)
        schema == CurSchema(h, i)
        items_schema_json == SchemaItems(schema)
    IN  IF PyEq(items_schema_json, EmptyDict)
        THEN R(Goto(t, "unsupported"), h)
        ELSE IF IsInstance(items_schema_json, {"dict"})
        THEN R(SetTop(t, [Top(t) EXCEPT !.pc = "items_loop", !.idx = 0]),
               push_schema(h, i, items_schema_json, ".items"))
        ELSE IF IsInstance(items_schema_json, {"list"})
        THEN IF Len(obj.l) < Len(items_schema_json.l)
             THEN report_error(t, h, ".items")
             ELSE R(SetTop(t, [Top(t) EXCEPT !.pc = "tuple_loop", !.idx = 0]), h)
        ELSE R(Goto(t, "unsupported"), h)

\* _validate_items up to its loop over the array.
validate_items(t, h) ==
    LET i      == Self(t)
        obj    == CurObject(h, i)
        schema == CurSchema(h, i)
        items_schema_json == SchemaItems(schema)
        addl   == SchemaAdditionalProperties(schema)
    IN  IF PyEq(items_schema_json, EmptyDict)
        THEN R(Goto(t, "unsupported"), h)
        ELSE IF IsInstance(items_schema_json, {"dict"})
        THEN R(SetTop(t, [Top(t) EXCEPT !.pc = "items_loop", !.idx = 0]),
               push_schema(h, i, items_schema_json, ".items"))
        ELSE IF IsInstance(items_schema_json, {"list"})
        THEN IF Len(obj.l) < Len(items_schema_json.l)
             THEN report_error(t, h, ".items")
             ELSE IF Len(obj.l) # Len(items_schema_json.l)
                     /\ addl.t = "bool" /\ addl.n = 0
             THEN report_error(t, h, ".items")
             ELSE R(SetTop(t, [Top(t) EXCEPT !.pc = "tuple_loop", !.idx = 0]), h)
        ELSE R(Goto(t, "unsupported"), h)

\* _push_array_item_object pushing no frame.
push_array_item_object_NoPush(h, i, index) == h

\* _push_array_item_object
push_array_item_object(h, i, index) ==
    push_object(h, i, CurObject(h, i).l[index + 1],
                "[" \o ToString(index) \o "]")

\* _validate_items, items a schema: one element of the array.
items_loop(t, h) ==
    LET i     == Self(t)
        obj   == CurObject(h, i)
        index == Top(t).idx
    IN  IF index >= Len(obj.l)
        THEN R(Goto(t, "unsupported"), pop_schema(h, i))
        ELSE CallValidate(Goto(t, "items_return"),
                          push_array_item_object(h, i, index), i)

\* _validate_items, items a schema, after _validate returned.
items_return(t, h) ==
    R(SetTop(t, [Top(t) EXCEPT !.pc = "items_loop", !.idx = @ + 1]),
      pop_object(h, Self(t)))

\* _validate_items, items a list: one position of izip_longest(obj, items).
tuple_loop(t, h) ==
    LET i      == Self(t)
        obj    == CurObject(h, i)
        schema == CurSchema(h, i)
        items_schema_json == SchemaItems(schema)
        index  == Top(t).idx
    IN  IF index >= Max(Len(obj.l), Len(items_schema_json.l))
        THEN R(Goto(t, "unsupported"), h)
        ELSE LET item_schema ==
                     IF index < Len(items_schema_json.l)
                     THEN items_schema_json.l[index + 1]
                     ELSE SchemaAdditionalProperties(schema)
                 h2 == IF index < Len(items_schema_json.l)
                       THEN push_schema(h, i, item_schema,
                                        "items[" \o ToString(index) \o "]")
                       ELSE push_schema(h, i, item_schema,
                                        ".additionalProperties")
             IN  CallValidate(Goto(t, "tuple_return"),
                              push_array_item_object(h2, i, index), i)

\* _validate_items, items a list, after _validate returned.
tuple_return(t, h) ==
    R(SetTop(t, [Top(t) EXCEPT !.pc = "tuple_loop", !.idx = @ + 1]),
      pop_object(pop_schema(h, Self(t)), Self(t)))

\* _validate_enum
validate_enum(t, h) ==
    LET obj  == CurObject(h, Self(t))
        enum == SchemaEnum(CurSchema(h, Self(t)))
    IN  IF enum.t = "NoneType"
        THEN R(Goto(t, "format"), h)
        ELSE IF \E k \in 1..Len(enum.l) : PyEq(obj, enum.l[k])
        THEN R(Goto(t, "format"), h)
        ELSE report_error(t, h, ".enum")

\* _validate_format
validate_format(t, h) ==
    LET obj == CurObject(h, Self(t))
        fmt == SchemaFormat(CurSchema(h, Self(t)))
    IN  IF fmt.t = "NoneType"
        THEN R(Goto(t, "pattern"), h)
        ELSE IF fmt.s = "date-time" /\ obj.t # "basestring"
        THEN Raise(t, h, "TypeError", "", "")
        ELSE IF fmt.s = "date-time" /\ ~Strptime(obj.s)
        THEN report_error(t, h, ".format")
        ELSE IF fmt.s = "regex"
        THEN IF ReCompiles(obj)
             THEN R(Goto(t, "pattern"), h)
             ELSE report_error_bad_keyword(t, h)
        ELSE Raise(t, h, "NotImplementedError", "", "")

\* _validate_pattern
validate_pattern(t, h) ==
    LET obj == CurObject(h, Self(t))
        ptn == SchemaPattern(CurSchema(h, Self(t)))
    IN  IF ptn.t = "NoneType"
        THEN R(Goto(t, "unsupported"), h)
        ELSE IF ~IsInstance(obj, {"basestring"})
        THEN R(Goto(t, "unsupported"), h)
        ELSE IF ReMatch(ptn.s, obj.s)
        THEN R(Goto(t, "unsupported"), h)
        ELSE report_error_bad_keyword(t, h)

\* _report_unsupported without its check of maxLength.
Unsupported_NoMaxLength(schema) ==
    \/ SchemaGet(schema, "minimum", None).t # "NoneType"
    \/ SchemaGet(schema, "maximum", None).t # "NoneType"
    \/ ~PyEq(SchemaGet(schema, "minItems", PyInt(0)), PyInt(0))
    \/ SchemaGet(schema, "maxItems", None).t # "NoneType"
    \/ ~PyEq(SchemaGet(schema, "uniqueItems", PyBool(FALSE)), PyBool(FALSE))
    \/ ~PyEq(SchemaGet(schema, "minLength", PyInt(0)), PyInt(0))
    \/ SchemaGet(schema, "contentEncoding", None).t # "NoneType"
    \/ ~PyEq(SchemaGet(schema, "divisibleBy", PyInt(1)), PyInt(1))
    \/ SchemaGet(schema, "disallow", None).t # "NoneType"

\* The conditions of _report_unsupported.
Unsupported(schema) ==
    \/ SchemaGet(schema, "minimum", None).t # "NoneType"
    \/ SchemaGet(schema, "maximum", None).t # "NoneType"
    \/ ~PyEq(SchemaGet(schema, "minItems", PyInt(0)), PyInt(0))
    \/ SchemaGet(schema, "maxItems", None).t # "NoneType"
    \/ ~PyEq(SchemaGet(schema, "uniqueItems", PyBool(FALSE)), PyBool(FALSE))
    \/ ~PyEq(SchemaGet(schema, "minLength", PyInt(0)), PyInt(0))
    \/ SchemaGet(schema, "maxLength", None).t # "NoneType"
    \/ SchemaGet(schema, "contentEncoding", None).t # "NoneType"
    \/ ~PyEq(SchemaGet(schema, "divisibleBy", PyInt(1)), PyInt(1))
    \/ SchemaGet(schema, "disallow", None).t # "NoneType"

\* _report_unsupported, and the return from _validate.
report_unsupported(t, h) ==
    IF Unsupported(CurSchema(h, Self(t)))
    THEN Raise(t, h, "NotImplementedError", "", "")
    ELSE R(Return(t), h)

\* One step of a thread: the operation at its position.
StepOf(t, h) ==
    CASE Pc(t) = "validate"          -> validate(t, h)
      [] Pc(t) = "validate_return"   -> validate_return(t, h)
      [] Pc(t) = "validate_toplevel" -> validate_toplevel(t, h)
      [] Pc(t) = "toplevel_return"   -> toplevel_return(t, h)
      [] Pc(t) = "type"              -> validate_type(t, h)
      [] Pc(t) = "type_return"       -> type_return(t, h)
      [] Pc(t) = "requires"          -> validate_requires(t, h)
      [] Pc(t) = "requires_return"   -> requires_return(t, h)
      [] Pc(t) = "properties"        -> validate_properties(t, h)
      [] Pc(t) = "properties_return" -> properties_return(t, h)
      [] Pc(t) = "additional"        -> validate_additional_properties(t, h)
      [] Pc(t) = "additional_loop"   -> additional_loop(t, h)
      [] Pc(t) = "additional_return" -> additional_return(t, h)
      [] Pc(t) = "items"             -> validate_items(t, h)
      [] Pc(t) = "items_loop"        -> items_loop(t, h)
      [] Pc(t) = "items_return"      -> items_return(t, h)
      [] Pc(t) = "tuple_loop"        -> tuple_loop(t, h)
      [] Pc(t) = "tuple_return"      -> tuple_return(t, h)
      [] Pc(t) = "enum"              -> validate_enum(t, h)
      [] Pc(t) = "format"            -> validate_format(t, h)
      [] Pc(t) = "pattern"           -> validate_pattern(t, h)
      [] Pc(t) = "unsupported"       -> report_unsupported(t, h)

\* A call of Validator.validate(schema, obj) about to start.
NewThread(in, order) ==
    [in |-> in, order |-> order,
     ctl |-> <<Activation("validate", 0)>>,
     res |-> [kind |-> "running", object_expr |-> "", schema_expr |-> "",
              by |-> 0],
     visited |-> {}]

\* The call run to its end with no other call beside it.
RECURSIVE RunFrom(_, _)
RunFrom(t, h) ==
    IF t.ctl = <<>> THEN t.res
    ELSE LET r == StepOf(t, h) IN RunFrom(r.t, r.h)

RunAlone(in, order) == RunFrom(NewThread(in, order), <<>>)

(***************************************************************************)
(* The calls checked: (schema, obj) pairs by family.                       *)
(***************************************************************************)
MaxAlts == 2

MaxTuple == 2

MaxArrayLen == 3

SeqsUpTo(S, n) == UNION {[1..k -> S] : k \in 0..n}

In(schema, obj) == [schema |-> schema, obj |-> obj, isSchema |-> TRUE]

Schema(d) == PyDict(d)

TypeNames ==
    {"string", "number", "integer", "object", "array", "null", "boolean", "any"}

ListedNames == {"boolean", "string", "number"}

SampleDocs ==
    {None, PyBool(TRUE), PyBool(FALSE), PyInt(3), PyFloat(25), PyStr("x"),
     PyList(<<>>), PyDict(<<>>)}

\* {"type": name} and {"type": [name, ...]}
TypeSchemas ==
    {Schema([type |-> PyStr(n)]) : n \in TypeNames}
    \cup {Schema([type |-> PyList([k \in DOMAIN l |-> PyStr(l[k])])]) :
             l \in SeqsUpTo(ListedNames, MaxAlts) \ {<<>>}}

TypeInputs == {In(s, d) : s \in TypeSchemas, d \in SampleDocs}

DateTimeSchema == Schema([format |-> PyStr("date-time")])

LeafSchemas ==
    {DateTimeSchema,
     Schema([format |-> PyStr("regex")]),
     Schema([format |-> PyStr("uri")]),
     Schema([pattern |-> PyStr("ab")]),
     Schema([pattern |-> PyStr("^a.$")]),
     Schema([enum |-> PyList(<<PyInt(1), PyInt(2), PyInt(3)>>)])}

LeafDocs ==
    {PyStr("2021-01-02T03:04:05Z"), PyStr("2021-01-02"),
     PyStr("2021-02-30T03:04:05Z"), PyStr("2021-1-2T3:4:5Z"),
     PyStr("abc"), PyStr("ab"), PyStr("xab"), PyStr("(a"),
     PyInt(2), PyInt(4), None}

LeafInputs == {In(s, d) : s \in LeafSchemas, d \in LeafDocs}

StringSchema == Schema([type |-> PyStr("string")])

IntegerSchema == Schema([type |-> PyStr("integer")])

NumberSchema == Schema([type |-> PyStr("number")])

\* One schema per keyword of _report_unsupported, and the same keywords
\* with their default values.
KeywordSchemas ==
    {Schema([minimum |-> PyInt(5)]), Schema([maximum |-> PyInt(5)]),
     Schema([minItems |-> PyInt(1)]), Schema([maxItems |-> PyInt(2)]),
     Schema([uniqueItems |-> PyBool(TRUE)]), Schema([minLength |-> PyInt(1)]),
     Schema([maxLength |-> PyInt(3)]),
     Schema([contentEncoding |-> PyStr("base64")]),
     Schema([divisibleBy |-> PyInt(2)]),
     Schema([disallow |-> PyStr("string")]),
     Schema([minItems |-> PyInt(0)]), Schema([uniqueItems |-> PyBool(FALSE)]),
     Schema([minLength |-> PyInt(0)]), Schema([divisibleBy |-> PyInt(1)]),
     Schema([type |-> PyStr("string"), minimum |-> PyInt(5)])}

NestedKeywordSchemas ==
    {Schema([properties |-> PyDict([a |-> sub])]) :
        sub \in {Schema([minimum |-> PyInt(5)]),
                 Schema([minimum |-> PyInt(5), optional |-> PyBool(TRUE)]),
                 Schema([type |-> PyStr("string"), maxLength |-> PyInt(3)])}}
    \cup {Schema([items |-> Schema([maxLength |-> PyInt(3)])]),
          Schema([type |-> PyList(<<Schema([minimum |-> PyInt(5)])>>)])}

KeywordDocs ==
    {PyDict(<<>>), PyDict([a |-> PyInt(1)]), PyDict([a |-> PyStr("x")]),
     PyInt(1), PyStr("x"), PyList(<<PyStr("x")>>)}

KeywordInputs ==
    {In(s, d) : s \in KeywordSchemas \cup NestedKeywordSchemas,
                d \in KeywordDocs}

\* items a list of per-position schemas, with and without
\* additionalProperties.
ItemSchemas == {StringSchema, IntegerSchema}

TupleSchemas ==
    UNION {{Schema([items |-> PyList(l)]),
            Schema([items |-> PyList(l),
                    additionalProperties |-> PyBool(FALSE)]),
            Schema([items |-> PyList(l),
                    additionalProperties |-> NumberSchema])} :
           l \in SeqsUpTo(ItemSchemas, MaxTuple)}

Arrays == {PyList(l) : l \in SeqsUpTo({PyStr("a"), PyInt(1)}, MaxArrayLen)}

TupleInputs == {In(s, d) : s \in TupleSchemas, d \in Arrays}

\* requires in its string form and its schema form, on a property, on an
\* optional property, at the root and on the items of an array.
OptionalSchema == Schema([optional |-> PyBool(TRUE)])

EnclosingSchema ==
    Schema([type |-> PyStr("object"),
            properties |-> PyDict([a |-> StringSchema])])

RequiresForms ==
    {PyStr("a"),
     EnclosingSchema,
     Schema([type |-> PyStr("array")]),
     Schema([properties |-> PyDict([b |-> IntegerSchema])]),
     Schema([properties |->
                 PyDict([b |-> Schema([requires |-> EnclosingSchema])])])}

OnProperty(sub) == Schema([properties |-> PyDict([a |-> OptionalSchema, b |-> sub])])

RequiresSchemas ==
    UNION {{OnProperty(Schema([requires |-> r])),
            OnProperty(Schema([requires |-> r, optional |-> PyBool(TRUE)])),
            Schema([requires |-> r]),
            Schema([items |-> Schema([requires |-> r])])} :
           r \in RequiresForms}

RequiresDocs ==
    {PyDict([b |-> PyInt(1)]),
     PyDict([a |-> PyInt(0), b |-> PyInt(1)]),
     PyDict([a |-> PyStr("x"), b |-> PyInt(2)]),
     PyDict([a |-> PyStr("x")]),
     PyList(<<PyInt(1)>>),
     PyInt(1)}

RequiresInputs == {In(s, d) : s \in RequiresSchemas, d \in RequiresDocs}

\* properties, additionalProperties, items a schema, and a nested schema
\* as an alternative of type.
ObjectSchema ==
    Schema([type |-> PyStr("object"),
            properties |-> PyDict([a |-> StringSchema])])

ContainerSchemas ==
    {ObjectSchema,
     Schema([type |-> PyStr("object"),
             properties |-> PyDict([a |-> Schema(<<>>)]),
             additionalProperties |-> PyBool(FALSE)]),
     Schema([properties |-> PyDict([a |-> Schema([type |-> PyStr("string"),
                                                  optional |-> PyBool(TRUE)]),
                                    b |-> IntegerSchema])]),
     Schema([additionalProperties |-> IntegerSchema]),
     Schema([type |-> PyList(<<ObjectSchema, PyStr("string")>>)]),
     Schema([type |-> PyList(<<PyStr("string"), IntegerSchema>>)]),
     Schema([items |-> StringSchema]),
     Schema([items |-> Schema([type |-> PyList(<<ObjectSchema>>)])])}

ContainerDocs ==
    {PyDict(<<>>),
     PyDict([a |-> PyStr("x")]),
     PyDict([a |-> PyInt(1), b |-> PyInt(2)]),
     PyDict([a |-> PyStr("x"), b |-> PyInt(2)]),
     PyStr("x"),
     PyInt(3),
     PyList(<<PyStr("a"), PyInt(1)>>),
     PyList(<<PyDict([a |-> PyStr("x")])>>),
     PyList(<<PyDict(<<>>)>>)}

ContainerInputs == {In(s, d) : s \in ContainerSchemas, d \in ContainerDocs}

\* properties together with additionalProperties: absent, false, and a
\* schema that the values of declared keys pass or do not pass.
DeclaredProperties ==
    {PyDict(<<>>),
     PyDict([a |-> StringSchema]),
     PyDict([a |-> StringSchema, b |-> IntegerSchema]),
     PyDict([a |-> Schema([type |-> PyStr("string"),
                           optional |-> PyBool(TRUE)])])}

AdditionalForms ==
    {PyBool(FALSE), IntegerSchema, StringSchema, ObjectSchema,
     Schema([type |-> PyList(<<PyStr("string"), PyStr("integer")>>)])}

AdditionalSchemas ==
    UNION {{Schema([properties |-> p]),
            Schema([properties |-> p, additionalProperties |-> f])} :
           p \in DeclaredProperties, f \in AdditionalForms}

AdditionalDocs ==
    {PyDict(<<>>),
     PyDict([a |-> PyStr("x")]),
     PyDict([a |-> PyInt(1)]),
     PyDict([b |-> PyInt(2)]),
     PyDict([a |-> PyStr("x"), b |-> PyInt(2)]),
     PyDict([a |-> PyStr("x"), b |-> PyStr("y")]),
     PyDict([a |-> PyDict([a |-> PyStr("x")])]),
     PyDict([a |-> PyDict([a |-> PyInt(1)])])}

AdditionalInputs == {In(s, d) : s \in AdditionalSchemas, d \in AdditionalDocs}

\* A first argument that is no Schema object.
NotASchema == [schema |-> PyStr("x"), obj |-> None, isSchema |-> FALSE]

\* The orders in which a build may iterate the keys of a dict.
PropNames == {"a", "b"}

KeyOrders ==
    {o \in [1..Cardinality(PropNames) -> PropNames] :
        \A j, k \in DOMAIN o : j # k => o[j] # o[k]}

FirstOrder == CHOOSE o \in KeyOrders : TRUE

\* The order matters only to the calls that iterate a dict of several keys.
Runs ==
    {<<in, o>> : in \in RequiresInputs \cup ContainerInputs
                       \cup AdditionalInputs,
                 o \in KeyOrders}
    \cup {<<in, FirstOrder>> :
             in \in TypeInputs \cup LeafInputs \cup KeywordInputs
                    \cup TupleInputs \cup {NotASchema}}

\* Two calls at once, on unrelated inputs.
ConcFirst ==
    {In(OnProperty(Schema([requires |-> EnclosingSchema])),
        PyDict([a |-> PyStr("x"), b |-> PyInt(2)])),
     In(ObjectSchema, PyDict(<<>>))}

ConcSecond ==
    {In(Schema([items |-> PyList(<<StringSchema>>),
                additionalProperties |-> NumberSchema]),
        PyList(<<PyStr("a"), PyInt(1)>>)),
     In(Schema([items |-> Schema([type |-> PyList(<<StringSchema>>)])]),
        PyList(<<PyInt(1)>>)),
     In(Schema([items |-> Schema([type |-> PyList(<<StringSchema>>)])]),
        PyList(<<PyStr("a")>>))}

(***************************************************************************)
(* The state machine.                                                      *)
(***************************************************************************)
Init ==
    /\ \E r \in Runs : th = [c \in {1} |-> NewThread(r[1], r[2])]
    /\ hp = <<>>

InitConc ==
    /\ \E a \in ConcFirst, b \in ConcSecond, o \in KeyOrders :
          th = [c \in {1, 2} |-> IF c = 1 THEN NewThread(a, o)
                                          ELSE NewThread(b, o)]
    /\ hp = <<>>

Fire(c, r) == th' = [th EXCEPT ![c] = r.t] /\ hp' = r.h

At(c, pc) == Pc(th[c]) = pc

Validate(c) == At(c, "validate") /\ Fire(c, validate(th[c], hp))

ValidateReturn(c) ==
    At(c, "validate_return") /\ Fire(c, validate_return(th[c], hp))

ValidateToplevel(c) ==
    At(c, "validate_toplevel") /\ Fire(c, validate_toplevel(th[c], hp))

ToplevelReturn(c) ==
    At(c, "toplevel_return") /\ Fire(c, toplevel_return(th[c], hp))

ValidateType(c) == At(c, "type") /\ Fire(c, validate_type(th[c], hp))

TypeReturn(c) == At(c, "type_return") /\ Fire(c, type_return(th[c], hp))

ValidateRequires(c) ==
    At(c, "requires") /\ Fire(c, validate_requires(th[c], hp))

RequiresReturn(c) ==
    At(c, "requires_return") /\ Fire(c, requires_return(th[c], hp))

ValidateProperties(c) ==
    At(c, "properties") /\ Fire(c, validate_properties(th[c], hp))

PropertiesReturn(c) ==
    At(c, "properties_return") /\ Fire(c, properties_return(th[c], hp))

ValidateAdditionalProperties(c) ==
    At(c, "additional") /\ Fire(c, validate_additional_properties(th[c], hp))

AdditionalLoop(c) ==
    At(c, "additional_loop") /\ Fire(c, additional_loop(th[c], hp))

AdditionalReturn(c) ==
    At(c, "additional_return") /\ Fire(c, additional_return(th[c], hp))

ValidateItems(c) == At(c, "items") /\ Fire(c, validate_items(th[c], hp))

ItemsLoop(c) == At(c, "items_loop") /\ Fire(c, items_loop(th[c], hp))

ItemsReturn(c) == At(c, "items_return") /\ Fire(c, items_return(th[c], hp))

TupleLoop(c) == At(c, "tuple_loop") /\ Fire(c, tuple_loop(th[c], hp))

TupleReturn(c) == At(c, "tuple_return") /\ Fire(c, tuple_return(th[c], hp))

ValidateEnum(c) == At(c, "enum") /\ Fire(c, validate_enum(th[c], hp))

ValidateFormat(c) == At(c, "format") /\ Fire(c, validate_format(th[c], hp))

ValidatePattern(c) == At(c, "pattern") /\ Fire(c, validate_pattern(th[c], hp))

ReportUnsupported(c) ==
    At(c, "unsupported") /\ Fire(c, report_unsupported(th[c], hp))

Next ==
    \/ \E c \in DOMAIN th : Validate(c)
    \/ \E c \in DOMAIN th : ValidateReturn(c)
    \/ \E c \in DOMAIN th : ValidateToplevel(c)
    \/ \E c \in DOMAIN th : ToplevelReturn(c)
    \/ \E c \in DOMAIN th : ValidateType(c)
    \/ \E c \in DOMAIN th : TypeReturn(c)
    \/ \E c \in DOMAIN th : ValidateRequires(c)
    \/ \E c \in DOMAIN th : RequiresReturn(c)
    \/ \E c \in DOMAIN th : ValidateProperties(c)
    \/ \E c \in DOMAIN th : PropertiesReturn(c)
    \/ \E c \in DOMAIN th : ValidateAdditionalProperties(c)
    \/ \E c \in DOMAIN th : AdditionalLoop(c)
    \/ \E c \in DOMAIN th : AdditionalReturn(c)
    \/ \E c \in DOMAIN th : ValidateItems(c)
    \/ \E c \in DOMAIN th : ItemsLoop(c)
    \/ \E c \in DOMAIN th : ItemsReturn(c)
    \/ \E c \in DOMAIN th : TupleLoop(c)
    \/ \E c \in DOMAIN th : TupleReturn(c)
    \/ \E c \in DOMAIN th : ValidateEnum(c)
    \/ \E c \in DOMAIN th : ValidateFormat(c)
    \/ \E c \in DOMAIN th : ValidatePattern(c)
    \/ \E c \in DOMAIN th : ReportUnsupported(c)

Spec == Init /\ [][Next]_vars

SpecConc == InitConc /\ [][Next]_vars

(***************************************************************************)
(* Properties.                                                             *)
(***************************************************************************)
Done(c) == th[c].ctl = <<>>

Outcome(res) ==
    [kind |-> res.kind, object_expr |-> res.object_expr,
     schema_expr |-> res.schema_expr]

Passed == [kind |-> "ok", object_expr |-> "", schema_expr |-> ""]

Failure(schema_expr) ==
    [kind |-> "ValidationError", object_expr |-> "object",
     schema_expr |-> schema_expr]

EndsWith(s, suffix) ==
    /\ Len(s) >= Len(suffix)
    /\ SubSeq(s, Len(s) - Len(suffix) + 1, Len(s)) = suffix

\* C1: a document that is true or false never passes the type check of
\* {"type": "number"} or {"type": "integer"}: validate raises a validation
\* failure.
C1_BooleanIsNoNumber ==
    \A c \in DOMAIN th :
        (Done(c) /\ th[c].in.schema \in {NumberSchema, IntegerSchema}
                 /\ th[c].in.obj.t = "bool")
        => th[c].res.kind = "ValidationError"

\* A primitive type name matches a value (boolean: exactly true or false).
NameMatches(name, obj) ==
    CASE name = "any"     -> TRUE
      [] name = "boolean" -> obj.t = "bool"
      [] OTHER            -> IsInstance(obj, JSON_TYPE_MAP[name])

IsNameList(schema) ==
    /\ DOMAIN schema.d = {"type"}
    /\ schema.d["type"].t = "list"
    /\ \A k \in DOMAIN schema.d["type"].l : schema.d["type"].l[k].t = "basestring"

\* C2: with type a list of primitive names, validate passes exactly when
\* the value matches one of the names, wherever that name stands in the
\* list, and otherwise fails with schema expression schema.type.
C2_TypeListIsOr ==
    \A c \in DOMAIN th :
        (Done(c) /\ th[c].in.isSchema /\ IsNameList(th[c].in.schema))
        => LET alts == th[c].in.schema.d["type"].l
               some == \E k \in DOMAIN alts : NameMatches(alts[k].s, th[c].in.obj)
           IN  Outcome(th[c].res) =
                   IF some THEN Passed ELSE Failure("schema.type")

\* C3: under {"format": "date-time"} a string passes when it has the form
\* year-month-dayThour:minute:secondZ and fails with schema expression
\* schema.format when it has not; it never ends in an engine-limitation
\* error.
C3_DateTime ==
    \A c \in DOMAIN th :
        (Done(c) /\ th[c].in.isSchema /\ th[c].in.schema = DateTimeSchema
                 /\ th[c].in.obj.t = "basestring")
        => IF Strptime(th[c].in.obj.s)
           THEN Outcome(th[c].res) = Passed
           ELSE Outcome(th[c].res) = Failure("schema.format")

\* C5: under {"pattern": p} a string passes when p matches at position 0
\* and otherwise fails with a validation failure whose schema expression
\* ends in .pattern.
C5_Pattern ==
    \A c \in DOMAIN th :
        (Done(c) /\ th[c].in.isSchema
                 /\ DOMAIN th[c].in.schema.d = {"pattern"}
                 /\ th[c].in.obj.t = "basestring")
        => IF ReMatch(th[c].in.schema.d["pattern"].s, th[c].in.obj.s)
           THEN th[c].res.kind = "ok"
           ELSE /\ th[c].res.kind = "ValidationError"
                /\ EndsWith(th[c].res.schema_expr, ".pattern")

\* The unsupported keywords, as a schema node declares them.
DeclaresUnsupported(schema) ==
    /\ schema.t = "dict"
    /\ \/ {"minimum", "maximum", "maxItems", "maxLength", "contentEncoding",
           "disallow"} \cap DOMAIN schema.d # {}
       \/ HasKey(schema, "minItems") /\ schema.d["minItems"].n # 0
       \/ HasKey(schema, "minLength") /\ schema.d["minLength"].n # 0
       \/ HasKey(schema, "uniqueItems") /\ schema.d["uniqueItems"].n # 0
       \/ HasKey(schema, "divisibleBy") /\ schema.d["divisibleBy"].n # 1

UnsupportedKeywords ==
    {"minimum", "maximum", "minItems", "maxItems", "uniqueItems", "minLength",
     "maxLength", "contentEncoding", "divisibleBy", "disallow"}

\* Some node of the schema tree declares an unsupported keyword.
RECURSIVE DeclaresAnywhere(_)
DeclaresAnywhere(v) ==
    \/ DeclaresUnsupported(v)
    \/ \E k \in DOMAIN v.d : DeclaresAnywhere(v.d[k])
    \/ \E k \in DOMAIN v.l : DeclaresAnywhere(v.l[k])

\* The schema tree with the unsupported keywords removed from every node.
RECURSIVE Supported(_)
Supported(v) ==
    [v EXCEPT !.d = [k \in DOMAIN v.d \ UnsupportedKeywords |-> Supported(v.d[k])],
              !.l = [k \in DOMAIN v.l |-> Supported(v.l[k])]]

ItemsOf(in) == in.schema.d["items"].l

ElementValidates(schema, element, order) ==
    RunAlone(In(schema, element), order).kind = "ok"

\* C6: with items a list of schemas, validate passes exactly when the
\* array is no shorter than the list, is as long as it or
\* additionalProperties is not false, every element within the list
\* validates against the schema at its position and every further element
\* against additionalProperties; a shorter array and a forbidden length
\* difference fail with schema expression schema.items.
C6_TupleItems ==
    \A c \in DOMAIN th :
        (Done(c) /\ th[c].in \in TupleInputs)
        => LET in     == th[c].in
               n      == Len(ItemsOf(in))
               len    == Len(in.obj.l)
               addl   == SchemaAdditionalProperties(in.schema)
               closed == addl.t = "bool" /\ addl.n = 0
           IN  /\ th[c].res.kind = "ok"
                  <=> /\ len >= n
                      /\ len = n \/ ~closed
                      /\ \A k \in 1..len :
                            ElementValidates(IF k <= n THEN ItemsOf(in)[k]
                                                       ELSE addl,
                                             in.obj.l[k], th[c].order)
               /\ (len < n \/ (len # n /\ closed))
                  => Outcome(th[c].res) = Failure("schema.items")

\* An array longer than the list, whose further element passed against
\* additionalProperties.
C6_Witness ==
    \E c \in DOMAIN th :
        /\ Done(c) /\ th[c].in \in TupleInputs /\ th[c].res.kind = "ok"
        /\ Len(ItemsOf(th[c].in)) >= 1
        /\ Len(th[c].in.obj.l) > Len(ItemsOf(th[c].in))
        /\ HasKey(th[c].in.schema, "additionalProperties")

\* The calls in which property b is present and its schema declares
\* requires as a nested schema.
RequiresOnB(in) ==
    /\ in.isSchema /\ in.obj.t = "dict" /\ HasKey(in.obj, "b")
    /\ HasKey(SchemaProperties(in.schema), "b")
    /\ SchemaRequires(SchemaProperties(in.schema).d["b"]).t = "dict"
    /\ SchemaRequires(SchemaProperties(in.schema).d["b"]) # EmptyDict

RequiresOfB(in) == SchemaRequires(SchemaProperties(in.schema).d["b"])

\* The same schema with requires taken out of the schema of b.
WithoutRequiresOfB(schema) ==
    LET props == schema.d["properties"]
        b     == props.d["b"]
        b2    == PyDict([k \in DOMAIN b.d \ {"requires"} |-> b.d[k]])
    IN  PyDict([schema.d EXCEPT !["properties"] = PyDict([props.d EXCEPT !["b"] = b2])])

\* The path expressions of a failure of the isolated visit: the schema
\* stack of the calling validator, then .requires, then the visit's own.
Isolated(res) ==
    [kind |-> res.kind, object_expr |-> res.object_expr,
     schema_expr |-> IF res.kind = "ValidationError"
                     THEN "schema.properties.b.requires"
                          \o SubSeq(res.schema_expr, Len("schema") + 1,
                                    Len(res.schema_expr))
                     ELSE res.schema_expr]

\* C7 (outcome): validate passes exactly when the enclosing object validates
\* against the nested schema of requires and the document passes the schema
\* without that requires; a failure of the isolated visit is what validate
\* raises, with the path expressions of the isolated context.
C7_RequiresOutcome ==
    \A c \in DOMAIN th :
        (Done(c) /\ RequiresOnB(th[c].in))
        => LET in       == th[c].in
               isolated == RunAlone(In(RequiresOfB(in), in.obj), th[c].order)
               rest     == RunAlone(In(WithoutRequiresOfB(in.schema), in.obj),
                                    th[c].order)
           IN  /\ th[c].res.kind = "ok"
                  <=> (isolated.kind = "ok" /\ rest.kind = "ok")
               /\ isolated.kind # "ok"
                  => Outcome(th[c].res) = Outcome(Isolated(isolated))

\* C7 (frame): no step taken while a requires check is under way changes a
\* stack of the validator that called it.
C7_RequiresFrame ==
    \A c \in DOMAIN th : \A k \in DOMAIN th[c].ctl :
        (th[c].ctl[k].pc = "requires_return"
         \/ (k = Len(th[c].ctl) /\ th[c].ctl[k].pc = "requires"))
        => hp'[th[c].ctl[k].self] = hp[th[c].ctl[k].self]

\* C7: when a property's schema declares requires as a nested schema, the
\* requires check passes exactly when the enclosing object validates
\* against it in an isolated visit, the stacks of the calling validator are
\* the same before and after the check, and a failure raised inside carries
\* the path expressions of the isolated context.
C7_Requires == [](C7_RequiresOutcome) /\ [][C7_RequiresFrame]_vars

\* A failure raised by the validator of the isolated visit.
C7_Witness ==
    \E c \in DOMAIN th :
        /\ Done(c) /\ RequiresOnB(th[c].in)
        /\ th[c].res.kind = "ValidationError" /\ th[c].res.by > 1
        /\ th[c].res.object_expr = "object.a"
        /\ th[c].res.schema_expr
              = "schema.properties.b.requires.properties.a.type"
        /\ hp[1].ss[Len(hp[1].ss)].path = ".properties.b"

\* The validators a thread works on.
ValidatorsOf(c) == {th[c].ctl[k].self : k \in DOMAIN th[c].ctl} \ {0}

\* C8: each of two interleaved calls ends as it does when run alone, with
\* the same path expressions, and no validator is worked on by both.
C8_Interleaved ==
    \A c \in DOMAIN th :
        /\ Done(c) => Outcome(th[c].res)
                        = Outcome(RunAlone(th[c].in, th[c].order))
        /\ \A c2 \in DOMAIN th \ {c} : ValidatorsOf(c) \cap ValidatorsOf(c2) = {}

\* The second call has run from start to end, a failure or a pass, while
\* the first is inside the isolated visit of its requires check.
C8_Witness ==
    /\ DOMAIN th = {1, 2}
    /\ Done(2) /\ th[2].res.kind # "running"
    /\ ~Done(1) /\ \E k \in DOMAIN th[1].ctl : th[1].ctl[k].pc = "requires_return"
    /\ ValidatorsOf(1) = {1, 3}

\* How many frames deeper the schema stack of a validator is than its
\* object stack.
Skew(v) == Len(v.ss) - Len(v.os)

FramesAt(stack, path) == Cardinality({k \in DOMAIN stack : stack[k].path = path})

\* A thread is at the entry of the core visit.
AtEntry(c) == At(c, "type") /\ Top(th[c]).idx = 0

\* A thread has raised from one of its validators; the stacks of that
\* validator are as they were at the raise.
Raised(c) == Done(c) /\ th[c].res.kind # "ok" /\ th[c].res.by > 0

\* C9, as claimed: at every entry to the core visit and wherever a failure
\* is raised the two stacks are equally deep, but for one more schema frame
\* for each nested-schema alternative of type that the visit is inside.
C9_EqualDepth ==
    \A c \in DOMAIN th :
        /\ AtEntry(c) => Skew(hp[Self(th[c])])
                           = FramesAt(hp[Self(th[c])].ss, ".type")
        /\ Raised(c) => Skew(hp[th[c].res.by])
                           = FramesAt(hp[th[c].res.by].ss, ".type")

\* C9, amended: at every entry to the core visit the schema stack is deeper
\* than the object stack by one frame for each nested-schema alternative of
\* type and by two for each requires schema the visit is inside; the same
\* holds where a failure is raised, but for the missing-property failure,
\* raised with the schema frame of the property pushed and no object frame.
C9_DepthSkew ==
    \A c \in DOMAIN th :
        /\ AtEntry(c)
           => Skew(hp[Self(th[c])])
                 = FramesAt(hp[Self(th[c])].ss, ".type")
                   + 2 * FramesAt(hp[Self(th[c])].ss, ".requires")
        /\ Raised(c)
           => Skew(hp[th[c].res.by])
                 = FramesAt(hp[th[c].res.by].ss, ".type")
                   + 2 * FramesAt(hp[th[c].res.by].ss, ".requires")
                   + (IF EndsWith(th[c].res.schema_expr, ".optional")
                      THEN 1 ELSE 0)

\* An entry to the core visit inside a requires schema that is itself
\* inside a nested-schema alternative of type or a second requires schema.
C9_Witness ==
    \E c \in DOMAIN th :
        /\ AtEntry(c)
        /\ FramesAt(hp[Self(th[c])].ss, ".requires") = 2
        /\ Skew(hp[Self(th[c])]) = 4

WithoutAdditional(schema) ==
    [schema EXCEPT !.d = [k \in DOMAIN schema.d \ {"additionalProperties"}
                              |-> schema.d[k]]]

\* The value of key k validates against the additionalProperties schema.
AdditionalAccepts(in, order, k) ==
    RunAlone(In(SchemaAdditionalProperties(in.schema), in.obj.d[k]),
             order).kind = "ok"

\* What the additionalProperties check asks of the object.
AdditionalHolds(in, order) ==
    LET addl == SchemaAdditionalProperties(in.schema)
    IN  IF addl = PyBool(FALSE)
        THEN \A k \in DOMAIN in.obj.d : HasKey(SchemaProperties(in.schema), k)
        ELSE \A k \in DOMAIN in.obj.d : AdditionalAccepts(in, order, k)

\* The failure that the value of the first key which the additionalProperties
\* schema rejects raises, with the path expressions of the enclosing call.
AdditionalFailure(in, order) ==
    LET keys == IterKeys(in.obj, order)
        j    == CHOOSE j \in DOMAIN keys :
                    /\ ~AdditionalAccepts(in, order, keys[j])
                    /\ \A m \in 1..(j - 1) : AdditionalAccepts(in, order, keys[m])
        e    == RunAlone(In(SchemaAdditionalProperties(in.schema),
                            in.obj.d[keys[j]]), order)
    IN  [kind |-> e.kind,
         object_expr |-> "object." \o keys[j]
                         \o SubSeq(e.object_expr, 7, Len(e.object_expr)),
         schema_expr |-> "schema.additionalProperties"
                         \o SubSeq(e.schema_expr, 7, Len(e.schema_expr))]

\* C11: for a mapping document that passes the checks before it, the
\* additionalProperties check passes exactly when, additionalProperties
\* being false, every key of the object is declared in properties, or,
\* additionalProperties not being false, the value of every key of the
\* object, declared in properties or not, validates against the
\* additionalProperties schema; it fails with schema.additionalProperties
\* in the first case and with the failure of the first rejected value under
\* schema.additionalProperties in the second.
C11_AdditionalProperties ==
    \A c \in DOMAIN th :
        (Done(c) /\ th[c].in \in AdditionalInputs)
        => LET in   == th[c].in
               base == RunAlone(In(WithoutAdditional(in.schema), in.obj),
                                th[c].order)
           IN  IF base.kind # "ok"
               THEN Outcome(th[c].res) = Outcome(base)
               ELSE IF AdditionalHolds(in, th[c].order)
               THEN Outcome(th[c].res) = Passed
               ELSE IF SchemaAdditionalProperties(in.schema) = PyBool(FALSE)
               THEN Outcome(th[c].res) = Failure("schema.additionalProperties")
               ELSE Outcome(th[c].res) = AdditionalFailure(in, th[c].order)

\* A declared key whose value passes its named schema and is rejected by
\* the additionalProperties schema.
C11_Witness ==
    \E c \in DOMAIN th :
        /\ Done(c) /\ th[c].in \in AdditionalInputs
        /\ HasKey(SchemaProperties(th[c].in.schema), "a")
        /\ HasKey(th[c].in.obj, "a")
        /\ RunAlone(In(SchemaProperties(th[c].in.schema).d["a"],
                       th[c].in.obj.d["a"]), th[c].order).kind = "ok"
        /\ Outcome(th[c].res) =
               [kind |-> "ValidationError", object_expr |-> "object.a",
                schema_expr |-> "schema.additionalProperties.type"]

====
